---------------------------- MODULE Spec2Model ----------------------------
(***************************************************************************)
(* State-machine model of the GrayLog input plugin                        *)
(* (plugins/inputs/graylog/graylog.go): the fan-out orchestrator Gather,   *)
(* the per-endpoint gatherer gatherServer, the request builder            *)
(* sendRequest and the flattening of a metric's nested field mapping.      *)
(*                                                                         *)
(* Strings that the code inspects (URLs, error messages) are sequences of *)
(* tokens, so that parsing, substring search and joining are computed;    *)
(* field keys are TLA+ strings, concatenated as the code concatenates.    *)
(* A float64 is held in tenths (25 stands for 2.5).                       *)
(***************************************************************************)
EXTENDS Integers, Sequences, FiniteSets, TLC

(***************************************************************************)
(* Bounds of the model.                                                    *)
(***************************************************************************)
MaxServers == 2

\* The most keys of one mapping passed to flatten.
MaxFields == 2

(***************************************************************************)
(* Program constants.                                                      *)
(***************************************************************************)
StatusOK == 200

\* The status codes a server answers with.
ServerStatuses == {StatusOK, 500}

(***************************************************************************)
(* URLs.  A URL string is a sequence of tokens: a scheme, the tokens of   *)
(* the authority (host, ":" and port), and the path tokens, the first of  *)
(* which starts with "/".                                                  *)
(***************************************************************************)
Schemes == {"http://", "https://"}

PathStarts == {"/system/metrics/", "/system/metrics/namespace/"}

BadEscapes == {"%zz"}

URLMultiple == <<"http://", "graylog1", ":", "12900", "/system/metrics/", "multiple">>

URLNamespace == <<"http://", "graylog2", "/system/metrics/namespace/", "jvm">>

URLNamespaceNamedMultiple ==
    <<"http://", "graylog1", ":", "12900", "/system/metrics/namespace/", "multiple">>

URLInvalid == <<"http://", "graylog1", ":", "12900", "/system/metrics/", "%zz">>

\* The URLs of the fan-out specification's server lists.
ServerURLs == {URLMultiple, URLNamespace, URLInvalid}

\* The URLs of the single-server specification: every authority with every
\* path.
Authorities == {<<"graylog1", ":", "12900">>, <<"graylog2">>, <<"multiple", ":", "12900">>}

Paths ==
    {<<"/system/metrics/", "multiple">>, <<"/system/metrics/namespace/", "jvm">>,
     <<"/system/metrics/namespace/", "multiple">>, <<"/system/metrics/", "%zz">>}

RequestURLs == {<<"http://">> \o a \o p : a \in Authorities, p \in Paths}

\* The configured metric list of the fan-out specification, and the lists of
\* the single-server specification.
ConfiguredMetrics == <<"a.b", "c.d">>

MetricLists == {<< >>, ConfiguredMetrics}

\* Index of the first path token of s, Len(s) + 1 when there is none.
PathIndex(s) ==
    LET starts == {i \in 2..Len(s) : s[i] \in PathStarts}
    IN  IF starts = {} THEN Len(s) + 1
        ELSE CHOOSE i \in starts : \A j \in starts : i <= j

\* url.Parse: the scheme, the authority and the path of a URL string, or an
\* error for a string with an invalid escape.
ParseURL(s) ==
    IF \/ s = << >>
    \/ s[1] \notin Schemes
    \/ \E i \in 1..Len(s) : s[i] \in BadEscapes
    THEN [ok |-> FALSE, Scheme |-> "", Host |-> << >>, Path |-> << >>]
    ELSE [ok     |-> TRUE,
          Scheme |-> s[1],
          Host   |-> SubSeq(s, 2, PathIndex(s) - 1),
          Path   |-> SubSeq(s, PathIndex(s), Len(s))]

\* (*url.URL).String: the URL reassembled from its parts.
URLString(u) == <<u.Scheme>> \o u.Host \o u.Path

\* strings.Contains, on tokens.
Contains(s, tok) == \E i \in 1..Len(s) : s[i] = tok

\* net.SplitHostPort: host and port of "host:port"; an authority without a
\* port, or with too many colons, is an error and yields empty strings.
\* Mutant: an authority without a port is split into its host and no port.
SplitHostPortLenient(hostport) ==
    IF Len(hostport) = 3 /\ hostport[2] = ":" /\ hostport[1] # ":" /\ hostport[3] # ":"
    THEN [host |-> hostport[1], port |-> hostport[3], ok |-> TRUE]
    ELSE [host |-> IF hostport = << >> THEN "" ELSE hostport[1], port |-> "", ok |-> TRUE]

SplitHostPort(hostport) ==
    IF Len(hostport) = 3 /\ hostport[2] = ":" /\ hostport[1] # ":" /\ hostport[3] # ":"
    THEN [host |-> hostport[1], port |-> hostport[3], ok |-> TRUE]
    ELSE [host |-> "", port |-> "", ok |-> FALSE]

\* A URL addresses the namespace endpoint when its path starts with the
\* namespace prefix (sampleConfig).
IsNamespaceURL(s) ==
    /\ ParseURL(s).ok
    /\ ParseURL(s).Path # << >>
    /\ ParseURL(s).Path[1] = "/system/metrics/namespace/"

(***************************************************************************)
(* Errors.  An error value is a record with its message; nil is NoError. *)
(***************************************************************************)
NoError == [nil |-> TRUE, msg |-> << >>]

NewError(m) == [nil |-> FALSE, msg |-> m]

\* http.StatusText
StatusText(code) ==
    CASE code = 200 -> "OK"
      [] code = 500 -> "Internal Server Error"
      [] OTHER      -> ""

\* fmt.Errorf("Invalid server URL \"%s\"", serverURL)
InvalidURLError(serverURL) ==
    NewError(<<"Invalid server URL \"">> \o serverURL \o <<"\"">>)

\* fmt.Errorf("Response from url \"%s\" has status code %d (%s), expected %d (%s)", ...)
StatusError(u, code) ==
    NewError(<<"Response from url \"">> \o u
             \o <<"\" has status code ", ToString(code), " (", StatusText(code),
                  "), expected ", ToString(StatusOK), " (", StatusText(StatusOK), ")">>)

\* Errors surfaced verbatim from the transport, the body reader, the JSON
\* decoder and the TLS configuration loader.
TransportError == NewError(<<"dial tcp: connection refused">>)

ReadError == NewError(<<"unexpected EOF">>)

UnmarshalError == NewError(<<"invalid character">>)

TLSConfigError == NewError(<<"could not load keypair">>)

\* strings.Join(elems, sep), on token sequences.
RECURSIVE Join(_, _)
Join(elems, sep) ==
    IF elems = << >> THEN << >>
    ELSE IF Len(elems) = 1 THEN elems[1]
    ELSE elems[1] \o <<sep>> \o Join(Tail(elems), sep)

(***************************************************************************)
(* Decoded JSON values.  encoding/json decodes every JSON number into a   *)
(* float64; an int can only come from a caller that builds the mapping    *)
(* itself.                                                                 *)
(***************************************************************************)
Float64(v) == [t |-> "float64", v |-> v]

IntValue(v) == [t |-> "int", v |-> v]

StringValue(v) == [t |-> "string", s |-> v]

MapValue(m) == [t |-> "map", m |-> m]

BoolValue(v) == [t |-> "bool", b |-> v]

ListValue(l) == [t |-> "list", l |-> l]

NullValue == [t |-> "nil"]

\* Mutant: a key that is already set keeps its value.
PutIfAbsent(fields, key, v) ==
    [k \in DOMAIN fields \cup {key} |-> IF k \in DOMAIN fields THEN fields[k] ELSE v]

\* fields[key] = v
Put(fields, key, v) ==
    [k \in DOMAIN fields \cup {key} |-> IF k = key THEN v ELSE fields[k]]

\* The state of a flatten call: the fields map it writes into, the writes
\* it has made in their order (<<key, value>>), and whether it panicked
\* (the type assertion i.(float64) on an int).
Writing(fields) == [panic |-> FALSE, fields |-> fields, writes |-> << >>]

\* flatten(item, fields, id): the set of the results the call can have, one
\* per order in which the range loops visit the keys of the mappings.
RECURSIVE FlattenFrom(_, _, _)
RECURSIVE FlattenKeys(_, _, _, _)
FlattenValue(i, w, key) ==
    CASE i.t = "int"     -> {[w EXCEPT !.panic = TRUE]}
      [] i.t = "float64" -> {[w EXCEPT !.fields = Put(w.fields, key, i.v),
                                       !.writes = Append(w.writes, <<key, i.v>>)]}
      [] i.t = "map"     -> FlattenFrom(i.m, w, key)
      [] OTHER           -> {w}

FlattenKeys(item, keys, w, id) ==
    IF keys = {} THEN {w}
    ELSE UNION { UNION { IF r.panic THEN {r}
                         ELSE FlattenKeys(item, keys \ {k}, r, id)
                         : r \in FlattenValue(item[k], w, id \o k) }
                 : k \in keys }

\* Mutant: the prefix gets no separator.
FlattenFromNoSeparator(item, w, id) ==
    FlattenKeys(item, DOMAIN item, w, id)

FlattenFrom(item, w, id) ==
    FlattenKeys(item, DOMAIN item, w, IF id # "" THEN id \o "_" ELSE id)

Flatten(item, fields, id) == FlattenFrom(item, Writing(fields), id)

\* The values flatten is called with: the leaves and the nested mappings of
\* a decoded response, under the keys of FieldKeys and NestedKeys.
DecodedLeaves ==
    {Float64(10), Float64(25), StringValue("ms"), BoolValue(TRUE), NullValue,
     ListValue(<<Float64(10)>>)}

\* The same and an int, which only a caller that builds the mapping itself
\* can pass.
TypedLeaves == DecodedLeaves \cup {IntValue(7)}

FieldKeys == {"", "a", "a_b"}

NestedKeys == {"b", "c"}

MappingsOver(keys, values) ==
    UNION {[d -> values] : d \in {e \in SUBSET keys : Cardinality(e) <= MaxFields}}

DeepMapping == MapValue("b" :> MapValue("c" :> Float64(25)))

NestedMappings(leaves) ==
    MappingsOver(FieldKeys,
                 leaves \cup {MapValue(m) : m \in MappingsOver(NestedKeys, leaves)}
                        \cup {DeepMapping})

Prefixes == {"", "p"}

(***************************************************************************)
(* Responses.  The metric records a server can answer with, and the       *)
(* outcomes of one MakeRequest call.                                       *)
(***************************************************************************)
MetricM ==
    [FullName |-> "m", Name |-> "n", Type |-> "t",
     Fields   |-> ("x" :> Float64(10) @@ "y" :> MapValue("z" :> Float64(25)) @@ "unit" :> StringValue("ms"))]

MetricLoaded ==
    [FullName |-> "jvm.cl.loaded", Name |-> "loaded", Type |-> "gauge",
     Fields   |-> ("value" :> Float64(1800))]

\* The metric lists of the valid bodies: none, two records.
MetricsBodies == {<< >>, <<MetricM, MetricLoaded>>}

Outcome(kind, status, valid, metrics) ==
    [kind |-> kind, status |-> status, valid |-> valid, metrics |-> metrics]

\* kind "neterr": MakeRequest returns an error; "readerr": reading the body
\* fails; "ok": the body was read, and is valid JSON of the expected shape
\* or not.
Outcomes ==
    {Outcome("neterr", 0, FALSE, << >>)}
    \cup {Outcome("readerr", s, FALSE, << >>) : s \in ServerStatuses}
    \cup {Outcome("ok", s, TRUE, << >>) : s \in ServerStatuses \ {StatusOK}}
    \cup {Outcome("ok", StatusOK, FALSE, << >>)}
    \cup {Outcome("ok", StatusOK, TRUE, b) : b \in MetricsBodies}

NoOutcome == Outcome("none", 0, FALSE, << >>)

\* Mutant: the decoder's error is dropped.
UnmarshalIgnoringError(o) == [err |-> NoError, Metrics |-> o.metrics]

\* json.Unmarshal([]byte(resp), &dat)
Unmarshal(o) ==
    IF o.valid THEN [err |-> NoError, Metrics |-> o.metrics]
    ELSE [err |-> UnmarshalError, Metrics |-> << >>]

(***************************************************************************)
(* sendRequest, as two halves: the request it builds and hands to          *)
(* MakeRequest, and what it returns for an outcome of MakeRequest.         *)
(***************************************************************************)
\* Credentials are byte strings.  "u", "p" and "pw", and "?", whose
\* encoding uses the last character of the alphabet.
Colon == <<58>>

DefaultCredentials == [user |-> <<117>>, pass |-> <<112>>]

CredentialsSet ==
    {DefaultCredentials, [user |-> <<117>>, pass |-> <<112, 119>>],
     [user |-> <<63>>, pass |-> <<63>>]}

\* The alphabet of base64.URLEncoding: "-" and "_" for 62 and 63.
Base64URLAlphabet ==
    <<"A", "B", "C", "D", "E", "F", "G", "H", "I", "J", "K", "L", "M",
      "N", "O", "P", "Q", "R", "S", "T", "U", "V", "W", "X", "Y", "Z",
      "a", "b", "c", "d", "e", "f", "g", "h", "i", "j", "k", "l", "m",
      "n", "o", "p", "q", "r", "s", "t", "u", "v", "w", "x", "y", "z",
      "0", "1", "2", "3", "4", "5", "6", "7", "8", "9", "-", "_">>

\* One group of up to three bytes, as four characters with "=" padding.
EncodeGroup(alphabet, g) ==
    LET b(k) == IF k <= Len(g) THEN g[k] ELSE 0
        n    == b(1) * 65536 + b(2) * 256 + b(3)
        c(k) == alphabet[
                    (CASE k = 1 -> n \div 262144
                       [] k = 2 -> (n \div 4096) % 64
                       [] k = 3 -> (n \div 64) % 64
                       [] k = 4 -> n % 64) + 1]
    IN  <<c(1), c(2)>>
        \o (IF Len(g) >= 2 THEN <<c(3)>> ELSE <<"=">>)
        \o (IF Len(g) >= 3 THEN <<c(4)>> ELSE <<"=">>)

\* (*Encoding).EncodeToString(bytes), as a sequence of characters.
RECURSIVE EncodeToString(_, _)
EncodeToString(alphabet, bytes) ==
    IF bytes = << >> THEN << >>
    ELSE IF Len(bytes) <= 3 THEN EncodeGroup(alphabet, bytes)
    ELSE EncodeGroup(alphabet, SubSeq(bytes, 1, 3))
         \o EncodeToString(alphabet, SubSeq(bytes, 4, Len(bytes)))

\* base64.URLEncoding.EncodeToString(bytes)
Base64URLEncode(bytes) == EncodeToString(Base64URLAlphabet, bytes)

\* json.Marshal(&Messagebody{Metrics: metrics})
MarshalMessagebody(metrics) ==
    <<"{\"metrics\":[">> \o Join([k \in 1..Len(metrics) |-> <<"\"", metrics[k], "\"">>], ",")
                         \o <<"]}">>

\* strings.Contains(requestURL.String(), "multiple")
IsMultiple(requestURL) == Contains(URLString(requestURL), "multiple")

\* Line 251: "Basic " + base64.URLEncoding.EncodeToString([]byte(user + ":" + pass))
BasicAuthorization(user, pass) ==
    <<"Basic ">> \o Base64URLEncode(user \o Colon \o pass)

\* Lines 245-273, for a server URL that parses.
BuildRequest(serverURL, metrics, user, pass) ==
    LET requestURL == ParseURL(serverURL)
        multiple   == IsMultiple(requestURL)
    IN  [method  |-> IF multiple THEN "POST" ELSE "GET",
         url     |-> URLString(requestURL),
         body    |-> IF multiple THEN MarshalMessagebody(metrics) ELSE << >>,
         headers |-> [ContentType   |-> "application/json",
                      Accept        |-> "application/json",
                      Authorization |-> BasicAuthorization(user, pass)]]

\* Mutant: the comparison is inverted.
StatusNotOKInverted(code) == code = StatusOK

\* resp.StatusCode != http.StatusOK
StatusNotOK(code) == code # StatusOK

\* Lines 275-298: the error sendRequest returns for an outcome of MakeRequest.
SendRequestError(serverURL, o) ==
    CASE o.kind = "neterr"  -> TransportError
      [] o.kind = "readerr" -> ReadError
      [] OTHER ->
           IF StatusNotOK(o.status)
           THEN StatusError(URLString(ParseURL(serverURL)), o.status)
           ELSE NoError

\* gatherServer, lines 186-198: the error it returns, or the metric records
\* of the parsed response.  The second url.Parse (line 190) is given the
\* string sendRequest has parsed already, so it cannot fail here; neither
\* can http.NewRequest (line 266) for GET or POST and a parsed URL.
ParseResponse(serverURL, o) ==
    IF ~SendRequestError(serverURL, o).nil
    THEN [err |-> SendRequestError(serverURL, o), Metrics |-> << >>]
    ELSE Unmarshal(o)

\* gatherServer, lines 199-208: the record handed to acc.AddFields for one
\* metric, flattened into fields.
Emitted(serverURL, m_item, fields) ==
    LET hp == SplitHostPort(ParseURL(serverURL).Host)
    IN  [measurement |-> m_item.FullName,
         fields      |-> fields,
         tags        |-> [server |-> hp.host, port |-> hp.port,
                          name |-> m_item.Name, type |-> m_item.Type]]

(***************************************************************************)
(* State.                                                                  *)
(*   Servers, Metrics  the configuration (h.Servers, h.Metrics)            *)
(*   Username, Password  the configured credentials                        *)
(*   flattenArgs       the arguments of a direct call of flatten           *)
(*   flattenResult     its result, once it has ended                       *)
(*   client            h.client.HTTPClient(): Nil, or the identity of the  *)
(*                     http.Client that was set                            *)
(*   built             the number of http.Client values built so far       *)
(*   gpc, idx, ret     Gather's position, its loop index, what it returned *)
(*   wg                the WaitGroup's counter                             *)
(*   chan              errorChannel: capacity, buffer, closed              *)
(*   errorStrings      Gather's errorStrings                               *)
(*   tpc, terr, todo   per server entry: the task's position, the error   *)
(*                     gatherServer returned, the records still to emit    *)
(*   sent, resp        per server entry: the requests handed to            *)
(*                     MakeRequest and the outcome of the last one         *)
(*   acc               the accumulator: the records added in this cycle,   *)
(*                     each with the server entry whose task added it      *)
(***************************************************************************)
VARIABLES Servers, Metrics, Username, Password, flattenArgs, flattenResult, client, built, gpc, idx, ret, wg, chan,
          errorStrings, tpc, terr, todo, sent, resp, acc

vars == <<Servers, Metrics, Username, Password, flattenArgs, flattenResult, client, built, gpc, idx, ret, wg, chan,
          errorStrings, tpc, terr, todo, sent, resp, acc>>

config == <<Servers, Metrics, Username, Password>>

direct == <<flattenArgs, flattenResult>>

gatherLocals == <<gpc, idx, ret, errorStrings>>

taskLocals == <<tpc, terr, todo, sent, resp>>

Nil == 0

Entries == 1..Len(Servers)

RECURSIVE SeqsUpTo(_, _)
SeqsUpTo(S, n) ==
    IF n = 0 THEN {<< >>}
    ELSE SeqsUpTo(S, n - 1) \cup {Append(q, x) : q \in {r \in SeqsUpTo(S, n - 1) : Len(r) = n - 1}, x \in S}

NoChannel == [cap |-> 0, buf |-> << >>, closed |-> FALSE]

\* init(): the plugin is registered with a RealHTTPClient whose client is nil;
\* the configuration sets Servers to one of serverLists, Metrics to one of
\* metricLists and the credentials to one of credentials.
Constructed(serverLists, metricLists, credentials) ==
    /\ Servers \in serverLists
    /\ Metrics \in metricLists
    /\ \E c \in credentials : Username = c.user /\ Password = c.pass
    /\ client = Nil
    /\ built = 0
    /\ gpc = "idle"
    /\ idx = 1
    /\ ret = NoError
    /\ wg = 0
    /\ chan = NoChannel
    /\ errorStrings = << >>
    /\ tpc = [i \in Entries |-> "unstarted"]
    /\ terr = [i \in Entries |-> NoError]
    /\ todo = [i \in Entries |-> << >>]
    /\ sent = [i \in Entries |-> << >>]
    /\ resp = [i \in Entries |-> NoOutcome]
    /\ acc = << >>

\* No direct call of flatten.
NoCall == [item |-> << >>, id |-> ""]

\* The plugin as the agent runs it: flatten is only called by the tasks.
InitWith(serverLists, metricLists, credentials) ==
    /\ Constructed(serverLists, metricLists, credentials)
    /\ flattenArgs = NoCall
    /\ flattenResult = << >>

\* Up to MaxServers configured servers.
Init == InitWith(SeqsUpTo(ServerURLs, MaxServers), {ConfiguredMetrics}, {DefaultCredentials})

\* One configured server, with any of the request URLs, metric lists and
\* credentials.
InitRequest == InitWith({<<u>> : u \in RequestURLs}, MetricLists, CredentialsSet)

\* A direct call flatten(item, fields, id) with an empty fields map and one
\* of mappings as item, on a plugin with no servers.
InitFlattenWith(mappings) ==
    /\ Constructed({<< >>}, {ConfiguredMetrics}, {DefaultCredentials})
    /\ flattenArgs \in [item : mappings, id : Prefixes]
    /\ flattenResult = << >>

\* The mappings of decoded responses.
InitFlatten == InitFlattenWith(NestedMappings(DecodedLeaves))

\* Mappings with values of every type of the switch.
InitFlattenTyped == InitFlattenWith(NestedMappings(TypedLeaves))

\* A panic in any goroutine ends the process: nothing runs after it.
Crashed == \E i \in Entries : tpc[i] = "panic"

(***************************************************************************)
(* Gather                                                                  *)
(***************************************************************************)
\* The agent calls Gather: a new cycle, with a fresh accumulator buffer and
\* fresh locals.
GatherCall ==
    /\ ~Crashed
    /\ gpc \in {"idle", "done"}
    /\ gpc' = "init"
    /\ idx' = 1
    /\ ret' = NoError
    /\ wg' = 0
    /\ chan' = NoChannel
    /\ errorStrings' = << >>
    /\ tpc' = [i \in Entries |-> "unstarted"]
    /\ terr' = [i \in Entries |-> NoError]
    /\ todo' = [i \in Entries |-> << >>]
    /\ sent' = [i \in Entries |-> << >>]
    /\ resp' = [i \in Entries |-> NoOutcome]
    /\ acc' = << >>
    /\ UNCHANGED <<config, direct, client, built>>

\* Mutant: the client is built in every cycle.
ClientUnsetAlways == TRUE

\* h.client.HTTPClient() == nil
ClientUnset == client = Nil

\* Mutant: a buffer of one error, whatever the number of servers.
MakeErrorChannelOfOne == [cap |-> 1, buf |-> << >>, closed |-> FALSE]

\* Mutant: the channel has no buffer.
MakeErrorChannelUnbuffered == [cap |-> 0, buf |-> << >>, closed |-> FALSE]

\* make(chan error, len(h.Servers))
MakeErrorChannel == [cap |-> Len(Servers), buf |-> << >>, closed |-> FALSE]

\* Lines 147-149: the channel is made and the loop is entered.
EnterLoop ==
    /\ chan' = MakeErrorChannel
    /\ gpc' = IF Len(Servers) = 0 THEN "wait" ELSE "spawn"

\* Lines 130-145 with GetTLSConfig succeeding: the client is built and set.
GatherSetClient ==
    /\ ~Crashed
    /\ gpc = "init"
    /\ ClientUnset
    /\ built' = built + 1
    /\ client' = built + 1
    /\ EnterLoop
    /\ UNCHANGED <<config, direct, idx, ret, wg, errorStrings, taskLocals, acc>>

\* Mutant: the failed setup leaves a client behind.
GatherTLSErrorKeepsClient ==
    /\ ~Crashed
    /\ gpc = "init"
    /\ ClientUnset
    /\ ret' = TLSConfigError
    /\ gpc' = "done"
    /\ built' = built + 1
    /\ client' = built + 1
    /\ UNCHANGED <<config, direct, idx, wg, chan, errorStrings, taskLocals, acc>>

\* Lines 130-135 with GetTLSConfig failing: Gather returns the error.
GatherTLSError ==
    /\ ~Crashed
    /\ gpc = "init"
    /\ ClientUnset
    /\ ret' = TLSConfigError
    /\ gpc' = "done"
    /\ UNCHANGED <<config, direct, client, built, idx, wg, chan, errorStrings,
                   taskLocals, acc>>

\* Line 130 with the client already set.
GatherReuseClient ==
    /\ ~Crashed
    /\ gpc = "init"
    /\ ~ClientUnset
    /\ EnterLoop
    /\ UNCHANGED <<config, direct, client, built, idx, ret, wg, errorStrings,
                   taskLocals, acc>>

\* Lines 149-157, one iteration: wg.Add(1) and the go statement.
GatherSpawn ==
    /\ ~Crashed
    /\ gpc = "spawn"
    /\ idx <= Len(Servers)
    /\ wg' = wg + 1
    /\ tpc' = [tpc EXCEPT ![idx] = "start"]
    /\ idx' = idx + 1
    /\ gpc' = IF idx = Len(Servers) THEN "wait" ELSE "spawn"
    /\ UNCHANGED <<config, direct, client, built, ret, chan, errorStrings,
                   terr, todo, sent, resp, acc>>

\* Mutant: Gather does not wait for the tasks.
WaitGroupDoneNoBarrier == TRUE

\* Mutant: the wait also ends at the first captured error (fail-fast).
WaitGroupDoneFailFast == wg = 0 \/ chan.buf # << >>

\* wg.Wait() returns once the counter is zero.
WaitGroupDone == wg = 0

\* Line 159: wg.Wait()
GatherWait ==
    /\ ~Crashed
    /\ gpc = "wait"
    /\ WaitGroupDone
    /\ gpc' = "close"
    /\ UNCHANGED <<config, direct, client, built, idx, ret, wg, chan, errorStrings,
                   taskLocals, acc>>

\* Line 160: close(errorChannel)
GatherClose ==
    /\ ~Crashed
    /\ gpc = "close"
    /\ chan' = [chan EXCEPT !.closed = TRUE]
    /\ gpc' = "drain"
    /\ UNCHANGED <<config, direct, client, built, idx, ret, wg, errorStrings,
                   taskLocals, acc>>

\* Mutant: the range takes two errors off the channel for each one it keeps.
GatherDrainLossy ==
    /\ ~Crashed
    /\ gpc = "drain"
    /\ chan.buf # << >>
    /\ errorStrings' = Append(errorStrings, Head(chan.buf).msg)
    /\ chan' = [chan EXCEPT !.buf = IF Len(@) > 1 THEN Tail(Tail(@)) ELSE Tail(@)]
    /\ UNCHANGED <<config, direct, client, built, gpc, idx, ret, wg, taskLocals, acc>>

\* Lines 164-166, one iteration of the range over the channel.
GatherDrain ==
    /\ ~Crashed
    /\ gpc = "drain"
    /\ chan.buf # << >>
    /\ errorStrings' = Append(errorStrings, Head(chan.buf).msg)
    /\ chan' = [chan EXCEPT !.buf = Tail(chan.buf)]
    /\ UNCHANGED <<config, direct, client, built, gpc, idx, ret, wg, taskLocals, acc>>

\* Mutant: only the first captured error is returned.
CombinedErrorFirstOnly(strs) ==
    IF Len(strs) = 0 THEN NoError ELSE NewError(strs[1])

\* Mutant: the combined error is built also when nothing was captured.
CombinedErrorAlways(strs) == NewError(Join(strs, "\n"))

\* Lines 168-171
CombinedError(strs) ==
    IF Len(strs) = 0 THEN NoError ELSE NewError(Join(strs, "\n"))

\* Lines 164-171: the range ends on the closed, empty channel and Gather
\* returns.
GatherReturn ==
    /\ ~Crashed
    /\ gpc = "drain"
    /\ chan.buf = << >>
    /\ chan.closed
    /\ ret' = CombinedError(errorStrings)
    /\ gpc' = "done"
    /\ UNCHANGED <<config, direct, client, built, idx, wg, chan, errorStrings,
                   taskLocals, acc>>

(***************************************************************************)
(* The task of one server entry: the goroutine of lines 151-156 running   *)
(* gatherServer.                                                           *)
(***************************************************************************)
\* gatherServer line 186 and sendRequest lines 244-275: the URL is parsed;
\* an invalid one is an error, otherwise the request is built and handed to
\* MakeRequest.
TaskSendRequest(i) ==
    /\ ~Crashed
    /\ tpc[i] = "start"
    /\ IF ~ParseURL(Servers[i]).ok
       THEN /\ terr' = [terr EXCEPT ![i] = InvalidURLError(Servers[i])]
            /\ tpc' = [tpc EXCEPT ![i] = "fail"]
            /\ UNCHANGED sent
       ELSE /\ sent' = [sent EXCEPT
                   ![i] = Append(@, [request |-> BuildRequest(Servers[i], Metrics, Username, Password),
                                     via     |-> client])]
            /\ tpc' = [tpc EXCEPT ![i] = "await"]
            /\ UNCHANGED terr
    /\ UNCHANGED <<config, direct, client, built, gatherLocals, wg, chan, todo, resp, acc>>

\* Mutant: a failed request is retried once.
AfterErrorRetry(attempts) == IF attempts < 2 THEN "start" ELSE "fail"

\* gatherServer lines 187-189 and 196-198: an error ends the task's gather;
\* attempts is the number of requests the task has issued.
AfterError(attempts) == "fail"

\* MakeRequest returns with outcome o; the rest of sendRequest (lines
\* 276-298) and gatherServer up to the parse of the body (lines 187-198).
TaskResponse(i, o) ==
    /\ ~Crashed
    /\ tpc[i] = "await"
    /\ resp' = [resp EXCEPT ![i] = o]
    /\ LET r == ParseResponse(Servers[i], o)
       IN  IF ~r.err.nil
           THEN /\ terr' = [terr EXCEPT ![i] = r.err]
                /\ tpc' = [tpc EXCEPT ![i] = AfterError(Len(sent[i]))]
                /\ UNCHANGED todo
           ELSE /\ todo' = [todo EXCEPT ![i] = r.Metrics]
                /\ tpc' = [tpc EXCEPT ![i] = IF r.Metrics = << >> THEN "exit" ELSE "emit"]
                /\ UNCHANGED terr
    /\ UNCHANGED <<config, direct, client, built, gatherLocals, wg, chan, sent, acc>>

\* gatherServer lines 199-209, one iteration: the metric's fields are
\* flattened and the record is added to the accumulator; after the last one
\* gatherServer returns nil.  A panic of flatten ends the process.
\* Mutant: a record whose host and port cannot be split is not added.
TaskEmitSplitOnly(i) ==
    /\ ~Crashed
    /\ tpc[i] = "emit"
    /\ \E f \in Flatten(Head(todo[i]).Fields, << >>, "") :
          /\ acc' = IF SplitHostPort(ParseURL(Servers[i]).Host).ok
                    THEN Append(acc, [entry  |-> i,
                                      record |-> Emitted(Servers[i], Head(todo[i]), f.fields)])
                    ELSE acc
          /\ todo' = [todo EXCEPT ![i] = Tail(@)]
          /\ tpc' = [tpc EXCEPT ![i] = IF Tail(todo[i]) = << >> THEN "exit" ELSE "emit"]
    /\ UNCHANGED <<config, direct, client, built, gatherLocals, wg, chan, terr, sent, resp>>

\* Mutant: the loop takes the records from the end of the list.
TaskEmitFromEnd(i) ==
    /\ ~Crashed
    /\ tpc[i] = "emit"
    /\ \E f \in Flatten(todo[i][Len(todo[i])].Fields, << >>, "") :
          /\ acc' = Append(acc, [entry  |-> i,
                                 record |-> Emitted(Servers[i], todo[i][Len(todo[i])], f.fields)])
          /\ todo' = [todo EXCEPT ![i] = SubSeq(@, 1, Len(@) - 1)]
          /\ tpc' = [tpc EXCEPT ![i] = IF Len(todo[i]) = 1 THEN "exit" ELSE "emit"]
    /\ UNCHANGED <<config, direct, client, built, gatherLocals, wg, chan, terr, sent, resp>>

TaskEmit(i) ==
    /\ ~Crashed
    /\ tpc[i] = "emit"
    /\ \E f \in Flatten(Head(todo[i]).Fields, << >>, "") :
          IF f.panic
          THEN /\ tpc' = [tpc EXCEPT ![i] = "panic"]
               /\ UNCHANGED <<todo, acc>>
          ELSE /\ acc' = Append(acc, [entry  |-> i,
                                      record |-> Emitted(Servers[i], Head(todo[i]), f.fields)])
               /\ todo' = [todo EXCEPT ![i] = Tail(@)]
               /\ tpc' = [tpc EXCEPT ![i] = IF Tail(todo[i]) = << >> THEN "exit" ELSE "emit"]
    /\ UNCHANGED <<config, direct, client, built, gatherLocals, wg, chan, terr, sent, resp>>

\* Line 154: errorChannel <- err.  The send blocks while the buffer is
\* full; a send on a closed channel panics.
TaskReport(i) ==
    /\ ~Crashed
    /\ tpc[i] = "fail"
    /\ IF chan.closed
       THEN /\ tpc' = [tpc EXCEPT ![i] = "panic"]
            /\ UNCHANGED chan
       ELSE /\ Len(chan.buf) < chan.cap
            /\ chan' = [chan EXCEPT !.buf = Append(@, terr[i])]
            /\ tpc' = [tpc EXCEPT ![i] = "exit"]
    /\ UNCHANGED <<config, direct, client, built, gatherLocals, wg, terr, todo, sent, resp, acc>>

\* Line 152: the deferred wg.Done().
TaskDone(i) ==
    /\ ~Crashed
    /\ tpc[i] = "exit"
    /\ wg' = wg - 1
    /\ tpc' = [tpc EXCEPT ![i] = "done"]
    /\ UNCHANGED <<config, direct, client, built, gatherLocals, chan, terr, todo, sent, resp, acc>>

Next ==
    \/ GatherCall
    \/ GatherSetClient
    \/ GatherTLSError
    \/ GatherReuseClient
    \/ GatherSpawn
    \/ GatherWait
    \/ GatherClose
    \/ GatherDrain
    \/ GatherReturn
    \/ \E i \in Entries : TaskSendRequest(i)
    \/ \E i \in Entries, o \in Outcomes : TaskResponse(i, o)
    \/ \E i \in Entries : TaskEmit(i)
    \/ \E i \in Entries : TaskReport(i)
    \/ \E i \in Entries : TaskDone(i)

Spec == Init /\ [][Next]_vars

SpecRequest == InitRequest /\ [][Next]_vars

\* The steps of Gather itself, once it is called, and the steps of the task
\* of entry i.
GatherStep ==
    \/ GatherSetClient
    \/ GatherTLSError
    \/ GatherReuseClient
    \/ GatherSpawn
    \/ GatherWait
    \/ GatherClose
    \/ GatherDrain
    \/ GatherReturn

TaskStep(i) ==
    \/ TaskSendRequest(i)
    \/ \E o \in Outcomes : TaskResponse(i, o)
    \/ TaskEmit(i)
    \/ TaskReport(i)
    \/ TaskDone(i)

\* The Go scheduler runs every goroutine that can take a step, and every
\* request gets its answer (the client's timeouts, lines 136-143).
Fairness ==
    /\ WF_vars(GatherStep)
    /\ \A i \in 1..MaxServers : WF_vars(i \in Entries /\ TaskStep(i))

\* Up to MaxServers configured servers, each with a URL that parses or
\* with one that does not.
InitFair ==
    InitWith(SeqsUpTo({URLMultiple, URLInvalid}, MaxServers), {ConfiguredMetrics},
             {DefaultCredentials})

SpecFair == InitFair /\ [][Next]_vars /\ Fairness

\* The direct call runs to its return or to its panic, with any order of
\* the range loops.
FlattenCall ==
    /\ flattenResult = << >>
    /\ \E r \in Flatten(flattenArgs.item, << >>, flattenArgs.id) : flattenResult' = <<r>>
    /\ UNCHANGED <<config, flattenArgs, client, built, gatherLocals, wg, chan, taskLocals, acc>>

NextFlatten == FlattenCall

SpecFlatten == InitFlatten /\ [][NextFlatten]_vars

SpecFlattenTyped == InitFlattenTyped /\ [][NextFlatten]_vars

(***************************************************************************)
(* Vocabulary of the claims.                                               *)
(***************************************************************************)
\* a occurs in b as a run of consecutive tokens.
IsInfix(a, b) ==
    \E k \in 0..(Len(b) - Len(a)) : SubSeq(b, k + 1, k + Len(a)) = a

\* Gather has returned; from the join, or from the failed TLS setup.
Returned == gpc = "done"

ReturnedFromJoin == gpc = "done" /\ chan.closed

ReturnedFromSetup == gpc = "done" /\ ~chan.closed

TaskRunning(i) == tpc[i] \notin {"unstarted", "done"}

\* Why entry i's gather fails, from its configured URL and from what its
\* server answered: "none" when it does not fail.
FailureKind(i) ==
    IF ~ParseURL(Servers[i]).ok THEN "url"
    ELSE CASE resp[i].kind = "neterr"  -> "transport"
           [] resp[i].kind = "readerr" -> "read"
           [] resp[i].kind = "ok" /\ resp[i].status # 200 -> "status"
           [] resp[i].kind = "ok" /\ resp[i].status = 200 /\ ~resp[i].valid -> "json"
           [] OTHER -> "none"

\* Entry i's gather has failed / has got a 200 answer with valid JSON.
Failed(i) == tpc[i] \in {"fail", "exit", "done"} /\ FailureKind(i) # "none"

Answered(i) == resp[i].kind = "ok" /\ resp[i].status = 200 /\ resp[i].valid

\* The measurement names of the records entry i's task has added, in order.
RECURSIVE EmittedNames(_, _)
EmittedNames(a, i) ==
    IF a = << >> THEN << >>
    ELSE (IF Head(a).entry = i THEN <<Head(a).record.measurement>> ELSE << >>)
         \o EmittedNames(Tail(a), i)

FullNames(metrics) == [k \in 1..Len(metrics) |-> metrics[k].FullName]

(***************************************************************************)
(* C1: Gather starts exactly one task per entry of the server list (one   *)
(* wg.Add per task, every entry started once the loop is over) and does   *)
(* not return while a task it started is running: when Gather has         *)
(* returned, every started task has finished.  (A cycle that ends in the  *)
(* TLS setup, before line 147, starts no task.)                            *)
(***************************************************************************)
C1_JoinBarrier ==
    /\ wg = Cardinality({i \in Entries : TaskRunning(i)})
    /\ gpc \in {"wait", "close", "drain"} \/ ReturnedFromJoin
          => \A i \in Entries : tpc[i] # "unstarted"
    /\ gpc = "spawn" => \A i \in Entries : (tpc[i] # "unstarted") <=> (i < idx)
    /\ Returned => \A i \in Entries : ~TaskRunning(i)
    /\ ReturnedFromJoin => \A i \in Entries : tpc[i] = "done"

C1_Witness ==
    /\ ReturnedFromJoin
    /\ Len(Servers) = 2
    /\ \A i \in Entries : tpc[i] = "done"
    /\ \E i \in Entries : Failed(i)
    /\ \E i \in Entries : Answered(i) /\ resp[i].metrics # << >>

(***************************************************************************)
(* C2 as stated: Gather returns an error if and only if at least one       *)
(* endpoint's gather failed in the cycle.                                  *)
(***************************************************************************)
C2_ErrorIffEndpointFailed ==
    Returned => (~ret.nil <=> \E i \in Entries : Failed(i))

(***************************************************************************)
(* C2 amended: Gather returns an error if and only if at least one         *)
(* endpoint's gather failed in the cycle or the TLS configuration could   *)
(* not be built at the start of the cycle, in which case no endpoint is   *)
(* gathered at all; with every endpoint succeeding (the same endpoint     *)
(* listed twice included) Gather returns success.                         *)
(***************************************************************************)
C2_ErrorIffFailedOrSetup ==
    /\ Returned => (~ret.nil <=> (ReturnedFromSetup \/ \E i \in Entries : Failed(i)))
    /\ ReturnedFromSetup => ret = TLSConfigError /\ \A i \in Entries : tpc[i] = "unstarted"
    /\ ReturnedFromJoin /\ (\A i \in Entries : Answered(i)) => ret.nil

C2_Witness ==
    /\ ReturnedFromJoin
    /\ Len(Servers) = 2
    /\ Servers[1] = Servers[2]
    /\ \A i \in Entries : Answered(i) /\ tpc[i] = "done"
    /\ ret.nil

(***************************************************************************)
(* C3: a failing endpoint does not stop or fail another endpoint's        *)
(* gather: when Gather has returned, every record of every endpoint that  *)
(* answered 200 with valid JSON has been added to the accumulator,        *)
(* whatever the other endpoints did, and every failure is reported in the *)
(* combined error.                                                         *)
(***************************************************************************)
C3_FailureIsolation ==
    Returned =>
        \A i \in Entries :
            /\ Answered(i) => EmittedNames(acc, i) = FullNames(resp[i].metrics)
            /\ Failed(i) => ~ret.nil /\ IsInfix(terr[i].msg, ret.msg)

C3_Witness ==
    /\ ReturnedFromJoin
    /\ \E i, j \in Entries :
          /\ Answered(i) /\ Len(resp[i].metrics) = 2
          /\ EmittedNames(acc, i) = FullNames(resp[i].metrics)
          /\ FailureKind(j) = "status"
          /\ IsInfix(<<"500">>, ret.msg)

(***************************************************************************)
(* C4: when an endpoint's gather fails (transport error, invalid          *)
(* configured URL, non-OK status, malformed JSON body; a failed read of   *)
(* the body as well), no record is added for that endpoint in the cycle   *)
(* and exactly one error of that endpoint is captured: the captured       *)
(* errors are, one for one, those of the failed tasks that are past their *)
(* report.                                                                 *)
(***************************************************************************)
Reported(i) == Failed(i) /\ tpc[i] \in {"exit", "done"}

Captured == [k \in 1..Len(chan.buf) |-> chan.buf[k].msg] \o errorStrings

Occurrences(q, x) == Cardinality({k \in 1..Len(q) : q[k] = x})

C4_FailedEndpointOneError ==
    /\ \A i \in Entries : Failed(i) => EmittedNames(acc, i) = << >>
    /\ ~Returned =>
          \A i \in Entries :
              Reported(i) =>
                  Occurrences(Captured, terr[i].msg)
                      = Cardinality({j \in Entries : Reported(j) /\ terr[j] = terr[i]})
    /\ ~Returned => Len(Captured) = Cardinality({i \in Entries : Reported(i)})
    /\ \A i \in Entries : tpc[i] \in {"emit", "exit", "done"} /\ ~Failed(i) => terr[i].nil

C4_Witness ==
    /\ gpc = "drain"
    /\ Len(Servers) = 2
    /\ FailureKind(1) = "url" /\ FailureKind(2) = "json"
    /\ Len(Captured) = 2
    /\ acc = << >>

(***************************************************************************)
(* C5: the error buffer never holds more errors than there are configured *)
(* servers, each task writes at most one error to it, and a task that is  *)
(* about to report its error finds room in the buffer: it never blocks,   *)
(* even when every endpoint fails.                                        *)
(***************************************************************************)
C5_BufferNeverBlocks ==
    /\ Len(chan.buf) <= Len(Servers)
    /\ Len(chan.buf) + Len(errorStrings)
          + Cardinality({i \in Entries : tpc[i] \in {"unstarted", "start", "await", "emit", "fail"}})
          <= Len(Servers)
    /\ \A i \in Entries : tpc[i] = "fail" => Len(chan.buf) < chan.cap

C5_Witness ==
    /\ Len(Servers) = 2
    /\ \A i \in Entries : Failed(i)
    /\ Len(chan.buf) = 2

(***************************************************************************)
(* C6: after all tasks have completed, the error Gather returns is made   *)
(* of exactly the messages of the endpoints that failed in the cycle, one *)
(* per failed endpoint, none missing and none twice, joined by newlines;  *)
(* with no error captured the result is success.                          *)
(***************************************************************************)
Orderings(S) ==
    {p \in [1..Cardinality(S) -> S] : \A a, b \in 1..Cardinality(S) : p[a] = p[b] => a = b}

C6_CombinedError ==
    ReturnedFromJoin =>
        LET F == {i \in Entries : Failed(i)}
        IN  IF F = {} THEN ret = NoError
            ELSE \E p \in Orderings(F) :
                    ret = NewError(Join([k \in 1..Cardinality(F) |-> terr[p[k]].msg], "\n"))

C6_Witness ==
    /\ ReturnedFromJoin
    /\ Len(Servers) = 2
    /\ FailureKind(1) = "status" /\ FailureKind(2) = "url"
    /\ ret = NewError(terr[2].msg \o <<"\n">> \o terr[1].msg)

(***************************************************************************)
(* C7: a gather cycle only moves forward through NotStarted, Running,     *)
(* Joining and Done: the errors are aggregated only after every task has  *)
(* finished, Done is left only by the next cycle's start, and within one  *)
(* cycle each server entry has its request issued at most once, also      *)
(* after a failure.                                                        *)
(***************************************************************************)
Stage(pc) ==
    CASE pc \in {"idle", "init"}            -> 0   \* NotStarted
      [] pc = "spawn"                       -> 1   \* Running
      [] pc \in {"wait", "close", "drain"}  -> 2   \* Joining
      [] pc = "done"                        -> 3   \* Done

C7_CycleMovesForward ==
    /\ [](/\ gpc \in {"close", "drain"} => \A i \in Entries : tpc[i] = "done"
          /\ \A i \in Entries : Len(sent[i]) <= 1)
    /\ [][\/ gpc \in {"idle", "done"} /\ gpc' = "init"
          \/ /\ Stage(gpc') >= Stage(gpc)
             /\ gpc = "done" => gpc' = "done"
             /\ gpc' \in {"close", "drain"} => \A i \in Entries : tpc[i] = "done"
             /\ \A i \in Entries : Len(sent'[i]) >= Len(sent[i])]_vars

C7_Witness ==
    /\ ReturnedFromJoin
    /\ \E i \in Entries : FailureKind(i) = "transport" /\ Len(sent[i]) = 1

(***************************************************************************)
(* C8 as stated: an endpoint's gather returns an error whenever the       *)
(* response status is not 200, and that error carries the request URL,    *)
(* the actual status and the expected status.                              *)
(***************************************************************************)
HasStatus(i) == resp[i].kind \in {"ok", "readerr"}

CarriesStatus(i) ==
    /\ IsInfix(sent[i][1].request.url, terr[i].msg)
    /\ IsInfix(<<"\" has status code ", ToString(resp[i].status)>>, terr[i].msg)
    /\ IsInfix(<<"), expected ", "200", " (", "OK", ")">>, terr[i].msg)

C8_NotOKCarriesStatus ==
    \A i \in Entries :
        HasStatus(i) /\ resp[i].status # 200 => ~terr[i].nil /\ CarriesStatus(i)

(***************************************************************************)
(* C8 amended: an endpoint's gather returns an error whenever the         *)
(* response status is not 200; when the body was read without error that  *)
(* error carries the request URL, the actual status and the expected      *)
(* status (a failed read of the body returns the read error instead);     *)
(* when the status is 200 no status error is raised.                      *)
(***************************************************************************)
C8_NotOKIsError ==
    \A i \in Entries :
        HasStatus(i) =>
            /\ resp[i].status # 200 => ~terr[i].nil /\ Failed(i)
            /\ resp[i].status # 200 /\ resp[i].kind = "ok" => CarriesStatus(i)
            /\ resp[i].status = 200 => ~IsInfix(<<"\" has status code ">>, terr[i].msg)
            /\ resp[i].status = 200 /\ resp[i].kind = "ok" /\ resp[i].valid => terr[i].nil

C8_Witness ==
    \E i \in Entries :
        /\ resp[i].kind = "ok" /\ resp[i].status = 500
        /\ tpc[i] = "done"
        /\ CarriesStatus(i)
        /\ IsInfix(<<"Internal Server Error">>, ret.msg)

(***************************************************************************)
(* C9: across any sequence of gather cycles the client's transport is set *)
(* at most once: Gather builds and sets it only when it is unset at the   *)
(* start of a cycle, it is set before any task of the cycle issues a      *)
(* request, and once set it is never changed: later cycles reuse it.      *)
(***************************************************************************)
C9_TransportSetOnce ==
    /\ [](/\ built <= 1
          /\ client \in {Nil, built}
          /\ \A i \in Entries : \A k \in 1..Len(sent[i]) :
                sent[i][k].via # Nil /\ sent[i][k].via = client)
    /\ [][/\ client # Nil => client' = client
          /\ client' # client => gpc = "init" /\ built' = built + 1
          /\ built' # built => client = Nil /\ client' = built']_vars

C9_Witness ==
    /\ gpc = "init"
    /\ client # Nil
    /\ built = 1

(***************************************************************************)
(* C10: for every namespace-mode URL the outgoing request is a GET with   *)
(* an empty body, whatever the configured metric list is and whatever     *)
(* namespace name or host the URL carries.                                 *)
(***************************************************************************)
C10_NamespaceIsGet ==
    \A i \in Entries :
        IsNamespaceURL(Servers[i]) =>
            \A k \in 1..Len(sent[i]) :
                sent[i][k].request.method = "GET" /\ sent[i][k].request.body = << >>

(***************************************************************************)
(* C11: for every URL in multiple-metrics mode the outgoing request is a  *)
(* POST whose body lists exactly the configured metric names in their     *)
(* configured order, and it carries the Basic-Auth header of              *)
(* username:password and the JSON Content-Type and Accept headers.        *)
(***************************************************************************)

\* The URL names the multiple-metrics endpoint.
IsMultipleURL(s) == ParseURL(s).ok /\ ParseURL(s).Path = <<"/system/metrics/", "multiple">>

\* The metric names a request body lists, in the order of the body.
BodyNames(body) ==
    SelectSeq(body, LAMBDA t : t \notin {"{\"metrics\":[", "\"", ",", "]}"})

\* The alphabet of the Basic authentication scheme: "+" and "/" for 62 and 63.
Base64StdAlphabet ==
    [k \in 1..64 |-> CASE k = 63 -> "+" [] k = 64 -> "/" [] OTHER -> Base64URLAlphabet[k]]

\* The Authorization header of the Basic scheme for user and pass.
BasicAuthHeader(user, pass) ==
    <<"Basic ">> \o EncodeToString(Base64StdAlphabet, user \o Colon \o pass)

C11_MultipleIsPost ==
    \A i \in Entries :
        IsMultipleURL(Servers[i]) =>
            \A k \in 1..Len(sent[i]) :
                LET request == sent[i][k].request
                IN  /\ request.method = "POST"
                    /\ request.body # << >>
                    /\ BodyNames(request.body) = Metrics
                    /\ request.headers.Authorization = BasicAuthHeader(Username, Password)
                    /\ request.headers.ContentType = "application/json"
                    /\ request.headers.Accept = "application/json"

\* The same, but for the characters of the Authorization header that stand
\* for 62 and 63.
C11_MultipleIsPostButAlphabet ==
    \A i \in Entries :
        IsMultipleURL(Servers[i]) =>
            \A k \in 1..Len(sent[i]) :
                LET request == sent[i][k].request
                IN  /\ request.method = "POST"
                    /\ request.body # << >>
                    /\ BodyNames(request.body) = Metrics
                    /\ request.headers.Authorization
                          = <<"Basic ">> \o Base64URLEncode(Username \o Colon \o Password)
                    /\ request.headers.ContentType = "application/json"
                    /\ request.headers.Accept = "application/json"

(***************************************************************************)
(* C12: for every nested mapping, flatten called with an empty prefix     *)
(* puts each numeric leaf into the output under the key formed by joining *)
(* the keys of its path from the root with underscores; no numeric leaf   *)
(* is lost and no non-numeric value appears in the output.                *)
(***************************************************************************)

\* The numeric leaves of a mapping, each with its path from the root.
RECURSIVE NumericLeaves(_, _)
NumericLeaves(item, path) ==
    UNION { CASE item[k].t \in {"float64", "int"} -> {[path |-> Append(path, k), t |-> item[k].t, v |-> item[k].v]}
              [] item[k].t = "map" -> NumericLeaves(item[k].m, Append(path, k))
              [] OTHER -> {}
            : k \in DOMAIN item }

\* The keys of a path joined with underscores.
RECURSIVE PathKey(_)
PathKey(path) ==
    IF Len(path) = 1 THEN path[1] ELSE path[1] \o "_" \o PathKey(Tail(path))

\* The output holds exactly the numeric leaves, each under its path key.
HoldsLeaves(fields, leaves) ==
    /\ \A leaf \in leaves :
          PathKey(leaf.path) \in DOMAIN fields /\ fields[PathKey(leaf.path)] = leaf.v
    /\ \A k \in DOMAIN fields :
          \E leaf \in leaves : PathKey(leaf.path) = k /\ leaf.v = fields[k]

\* No two leaves have the same path key.
DistinctKeys(leaves) ==
    \A l1, l2 \in leaves : PathKey(l1.path) = PathKey(l2.path) => l1.path = l2.path

\* No key on the path of a leaf is empty.
NoEmptyKey(leaves) ==
    \A leaf \in leaves : \A n \in 1..Len(leaf.path) : leaf.path[n] # ""

\* The claim as stated.
C12_EveryLeafKept ==
    \A n \in 1..Len(flattenResult) :
        flattenArgs.id = "" =>
            /\ ~flattenResult[n].panic
            /\ HoldsLeaves(flattenResult[n].fields, NumericLeaves(flattenArgs.item, << >>))

\* C12, amended: the same for every nested mapping of which no two numeric
\* leaves have the same underscore-joined path and no key on the path of a
\* numeric leaf is empty.
C12_EveryLeafKeptWhenDistinct ==
    \A n \in 1..Len(flattenResult) :
        LET leaves == NumericLeaves(flattenArgs.item, << >>)
        IN  flattenArgs.id = "" /\ DistinctKeys(leaves) /\ NoEmptyKey(leaves) =>
                /\ ~flattenResult[n].panic
                /\ HoldsLeaves(flattenResult[n].fields, leaves)

C12_Witness ==
    /\ flattenArgs = [item |-> ("a" :> DeepMapping @@ "a_b" :> StringValue("ms")), id |-> ""]
    /\ Len(flattenResult) = 1
    /\ flattenResult[1].fields = ("a_b_c" :> 25)

(***************************************************************************)
(* C13: flatten accepts a value of integer type as well as one of         *)
(* floating-point type: in both cases the call completes without failure  *)
(* and stores the value under the prefixed key.                           *)
(***************************************************************************)

\* The call has written value under key.
Wrote(r, key, value) == \E m \in 1..Len(r.writes) : r.writes[m] = <<key, value>>

\* The key flatten forms for k under the prefix id.
PrefixedKey(id, k) == IF id = "" THEN k ELSE id \o "_" \o k

C13_IntAndFloatStored ==
    \A n \in 1..Len(flattenResult) :
        \A k \in DOMAIN flattenArgs.item :
            flattenArgs.item[k].t \in {"int", "float64"} =>
                /\ ~flattenResult[n].panic
                /\ Wrote(flattenResult[n], PrefixedKey(flattenArgs.id, k), flattenArgs.item[k].v)

\* The same for the values of floating-point type of a mapping without a
\* value of integer type.
C13_FloatStored ==
    \A n \in 1..Len(flattenResult) :
        \A k \in DOMAIN flattenArgs.item :
            /\ flattenArgs.item[k].t = "float64"
            /\ \A leaf \in NumericLeaves(flattenArgs.item, << >>) : leaf.t # "int"
            => /\ ~flattenResult[n].panic
               /\ Wrote(flattenResult[n], PrefixedKey(flattenArgs.id, k), flattenArgs.item[k].v)

(***************************************************************************)
(* C14: every record emitted for an endpoint carries the host of that     *)
(* endpoint's URL in its host tag (the tag named server), and the port of *)
(* the URL in its port tag whenever the URL specifies a port; a URL with  *)
(* a host but no explicit port still yields the host in the host tag.     *)
(***************************************************************************)

\* The host of a URL and whether the URL specifies a port.
URLHost(s) == ParseURL(s).Host[1]

HasPort(s) == Len(ParseURL(s).Host) = 3

URLPort(s) == ParseURL(s).Host[3]

\* The claim as stated.
C14_HostTagAlways ==
    \A n \in 1..Len(acc) :
        LET s    == Servers[acc[n].entry]
            tags == acc[n].record.tags
        IN  /\ tags.server = URLHost(s)
            /\ HasPort(s) => tags.port = URLPort(s)

\* C14, amended: every record emitted for an endpoint whose URL specifies a
\* port carries the host of the URL in its server tag and the port in its
\* port tag; for a URL with a host but no explicit port both tags are
\* empty.
C14_HostTagWithPort ==
    \A n \in 1..Len(acc) :
        LET s    == Servers[acc[n].entry]
            tags == acc[n].record.tags
        IN  /\ HasPort(s) => tags.server = URLHost(s) /\ tags.port = URLPort(s)
            /\ ~HasPort(s) => tags.server = "" /\ tags.port = ""

C14_Witness ==
    \E a, b \in 1..Len(acc) :
        /\ HasPort(Servers[acc[a].entry])
        /\ acc[a].record.tags.server = "graylog1"
        /\ acc[a].record.tags.port = "12900"
        /\ ~HasPort(Servers[acc[b].entry])
        /\ URLHost(Servers[acc[b].entry]) = "graylog2"
        /\ acc[b].record.tags.server = ""

(***************************************************************************)
(* C15: when the host:port of the request URL cannot be split, the        *)
(* endpoint's gather does not fail: it still emits every record of the    *)
(* response, with empty host and port tags, and contributes no error to   *)
(* the aggregated error set.                                               *)
(***************************************************************************)
CannotSplit(i) ==
    ParseURL(Servers[i]).ok /\ ~SplitHostPort(ParseURL(Servers[i]).Host).ok

C15_SplitFailureIgnored ==
    /\ \A i \in Entries :
          CannotSplit(i) /\ Answered(i) /\ tpc[i] \in {"exit", "done"} =>
              /\ terr[i].nil
              /\ EmittedNames(acc, i) = FullNames(resp[i].metrics)
    /\ \A n \in 1..Len(acc) :
          CannotSplit(acc[n].entry) =>
              acc[n].record.tags.server = "" /\ acc[n].record.tags.port = ""
    /\ (\A i \in Entries : CannotSplit(i) /\ FailureKind(i) = "none") =>
          /\ Captured = << >>
          /\ ReturnedFromJoin => ret.nil

C15_Witness ==
    /\ ReturnedFromJoin
    /\ ret.nil
    /\ Len(Servers) = 2
    /\ \A i \in Entries : CannotSplit(i) /\ Answered(i) /\ Len(resp[i].metrics) = 2
    /\ Len(acc) = 4

(***************************************************************************)
(* C16: in every interleaving the records emitted for one server reach    *)
(* the accumulator in the order of the metric list of that server's       *)
(* parsed response, exactly one record per source metric with the         *)
(* record's full name as measurement name; records of different servers   *)
(* may interleave arbitrarily.                                             *)
(***************************************************************************)

\* The entries of the records of the accumulator, in order.
EntryOrder == [n \in 1..Len(acc) |-> acc[n].entry]

C16_EmitInResponseOrder ==
    \A i \in Entries :
        LET names == EmittedNames(acc, i)
        IN  /\ ~Answered(i) => names = << >>
            /\ Answered(i) =>
                  /\ Len(names) <= Len(resp[i].metrics)
                  /\ names = SubSeq(FullNames(resp[i].metrics), 1, Len(names))
                  /\ Len(names) + Len(todo[i]) = Len(resp[i].metrics)
                  /\ tpc[i] \in {"exit", "done"} => todo[i] = << >>

\* The second server's first record precedes the first server's records,
\* and its second record follows them.
C16_Witness ==
    /\ EntryOrder = <<2, 1, 1, 2>>
    /\ EmittedNames(acc, 1) = <<"m", "jvm.cl.loaded">>
    /\ EmittedNames(acc, 2) = <<"m", "jvm.cl.loaded">>

(***************************************************************************)
(* C17: if every task's HTTP request eventually returns a response or an  *)
(* error, then under fair scheduling every gather cycle eventually        *)
(* returns, for any number of configured servers including zero and for   *)
(* any mix of succeeding and failing endpoints.                           *)
(***************************************************************************)
C17_CycleReturns == (gpc \notin {"idle", "done"}) ~> (gpc = "done")

C17_Witness ==
    /\ ReturnedFromJoin
    /\ Len(Servers) = 2
    /\ FailureKind(1) = "transport"
    /\ Answered(2)
    /\ Len(acc) = 2

(***************************************************************************)
(* C18: when two different input paths flatten to the same output key,    *)
(* flatten does not fail and the output holds under that key exactly one  *)
(* value, that of the colliding path written last; the entries of all     *)
(* non-colliding keys are unaffected.                                      *)
(***************************************************************************)

\* The key flatten forms for a path under the prefix id.
RECURSIVE OutputKey(_, _)
OutputKey(id, path) ==
    IF path = << >> THEN id ELSE OutputKey(PrefixedKey(id, path[1]), Tail(path))

\* The leaves whose paths flatten to key.
LeavesAt(leaves, id, key) == {leaf \in leaves : OutputKey(id, leaf.path) = key}

\* The value of the last write under key.
LastWritten(writes, key) ==
    LET at == {m \in 1..Len(writes) : writes[m][1] = key}
    IN  writes[CHOOSE m \in at : \A o \in at : o <= m][2]

C18_LastWriteWins ==
    \A n \in 1..Len(flattenResult) :
        LET r      == flattenResult[n]
            id     == flattenArgs.id
            leaves == NumericLeaves(flattenArgs.item, << >>)
        IN  /\ ~r.panic
            /\ Len(r.writes) = Cardinality(leaves)
            /\ DOMAIN r.fields = {OutputKey(id, leaf.path) : leaf \in leaves}
            /\ \A key \in DOMAIN r.fields :
                  /\ r.fields[key] = LastWritten(r.writes, key)
                  /\ \E leaf \in LeavesAt(leaves, id, key) : r.fields[key] = leaf.v
                  /\ Cardinality({m \in 1..Len(r.writes) : r.writes[m][1] = key})
                        = Cardinality(LeavesAt(leaves, id, key))

\* The paths a.b and a_b collide; a.c does not.
C18_Witness ==
    /\ flattenArgs =
          [item |-> ("a" :> MapValue("b" :> Float64(10) @@ "c" :> Float64(25))
                     @@ "a_b" :> Float64(25)),
           id   |-> ""]
    /\ Len(flattenResult) = 1
    /\ flattenResult[1].fields = ("a_b" :> 10 @@ "a_c" :> 25)
    /\ \E m, o \in 1..Len(flattenResult[1].writes) :
          /\ m < o
          /\ flattenResult[1].writes[m] = <<"a_b", 25>>
          /\ flattenResult[1].writes[o] = <<"a_b", 10>>

(***************************************************************************)
(* C19: the error buffer is closed only after every task has finished, so *)
(* in no interleaving does a task write to a closed buffer; the drain     *)
(* that follows the close reads every captured error exactly once and     *)
(* terminates.                                                             *)
(***************************************************************************)

\* The messages of the errors of the failed tasks, as a bag.
FailedMessages == {terr[i].msg : i \in {j \in Entries : Failed(j)}}

SameErrors(q) ==
    /\ Len(q) = Cardinality({i \in Entries : Failed(i)})
    /\ \A m \in FailedMessages :
          Occurrences(q, m) = Cardinality({i \in Entries : Failed(i) /\ terr[i].msg = m})

C19_CloseAfterTasks ==
    /\ [](/\ chan.closed => \A i \in Entries : tpc[i] = "done"
          /\ \A i \in Entries : tpc[i] # "panic"
          /\ chan.closed => SameErrors(Captured)
          /\ ReturnedFromJoin => chan.buf = << >> /\ SameErrors(errorStrings))
    /\ [][/\ ~chan.closed /\ chan'.closed => \A i \in Entries : tpc[i] = "done"
          /\ chan.closed /\ chan'.closed =>
                \/ chan' = chan
                \/ /\ gpc = "drain"
                   /\ Len(chan'.buf) = Len(chan.buf) - 1
                   /\ errorStrings' = Append(errorStrings, chan.buf[1].msg)
          /\ Len(chan'.buf) > Len(chan.buf) => ~chan.closed]_vars

C19_Witness ==
    /\ ReturnedFromJoin
    /\ Len(Servers) = 2
    /\ FailureKind(1) = "json"
    /\ FailureKind(2) = "url"
    /\ chan.buf = << >>
    /\ errorStrings = <<terr[2].msg, terr[1].msg>>

(***************************************************************************)
(* C20: if building the TLS configuration fails at the start of a cycle   *)
(* in which the client's transport is unset, Gather returns that error    *)
(* without starting any task, issuing any request or emitting any metric, *)
(* and the transport stays unset, so that the next cycle attempts the     *)
(* setup again.                                                            *)
(***************************************************************************)

\* Nothing of the fan-out has happened in this cycle.
NothingStarted ==
    /\ wg = 0
    /\ chan = NoChannel
    /\ acc = << >>
    /\ \A i \in Entries : tpc[i] = "unstarted" /\ sent[i] = << >> /\ resp[i] = NoOutcome

C20_SetupErrorReturned ==
    /\ [](ReturnedFromSetup =>
              /\ ret = TLSConfigError
              /\ client = Nil
              /\ NothingStarted)
    /\ [][/\ gpc = "init" /\ gpc' = "done" =>
                /\ client = Nil /\ client' = Nil
                /\ ret' = TLSConfigError
          /\ ReturnedFromSetup /\ gpc' # gpc =>
                /\ gpc' = "init" /\ client' = Nil
          /\ gpc = "init" /\ client = Nil /\ gpc' # gpc =>
                \/ gpc' = "done" /\ ret' = TLSConfigError /\ client' = Nil
                \/ gpc' \in {"spawn", "wait"} /\ client' # Nil /\ built' = built + 1]_vars

C20_Witness ==
    /\ ReturnedFromSetup
    /\ ret = TLSConfigError
    /\ client = Nil
    /\ Len(Servers) = 2
    /\ NothingStarted

=============================================================================
